---------------------------- MODULE Spec2Model ----------------------------
(***************************************************************************)
(* Model of neo4jChatbot.py: module initialisation (SpecStartup) and the   *)
(* console loop chat_loop with generate_response, the agent pipeline and   *)
(* the seven tool callables it reaches (Spec).                             *)
(*                                                                         *)
(* The language model, the graph-QA chain, the agent executor and the      *)
(* history store are external: what they return or raise is drawn          *)
(* nondeterministically from small sets.                                   *)
(***************************************************************************)
EXTENDS Integers, Sequences, FiniteSets, TLC

VARIABLES
    mpc,          \* index of the next module-level statement to execute
    globals,      \* module namespace: bound name -> value
    environ,      \* process environment: variable -> value ("None" = unset)
    crash,        \* "" or the exception that ended module initialisation
    pc,           \* position in chat_loop / generate_response / pipeline
    turns,        \* completed iterations of the while loop
    user_input,   \* chat_loop's user_input (sequence of characters)
    console,      \* everything written to stdout, in order
    log,          \* records appended to chatbot_errors.log, in order
    uuidState,    \* number of identifiers uuid.uuid4 has produced
    sessions,     \* session ids handed to chat_agent.invoke, in order
    memoryKey,    \* session_id of the handle get_memory returned last
    stored,       \* session ids under which the history store holds a turn
    genCalls,     \* generate_response calls since the last input()
    pipelineCalls,\* chat_agent.invoke calls in the current generate_response
    agentSteps,   \* tool selections the agent has made so far in the run
    curTool,      \* index into tools of the tool running / last run (0: none)
    toolInput,    \* the Action Input the agent passed to that tool
    outcome,      \* what the tool's downstream call returned or raised
    calls,        \* downstream invocations made by the current tool call
    toolResult,   \* the observation the tool returned to the agent
    response,     \* the dict chat_agent.invoke returned
    pending,      \* exception in flight inside generate_response's try
    genResult,    \* the string generate_response returns
    agentTools    \* the tool list the agent executor dispatches on

startupVars == <<mpc, globals, environ, crash>>
loopVars == <<pc, turns, user_input, console, log, uuidState, sessions,
              memoryKey, stored, genCalls, pipelineCalls, agentSteps,
              curTool, toolInput, outcome, calls, toolResult, response,
              pending, genResult, agentTools>>
vars == <<mpc, globals, environ, crash, pc, turns, user_input, console, log,
          uuidState, sessions, memoryKey, stored, genCalls, pipelineCalls,
          agentSteps, curTool, toolInput, outcome, calls, toolResult,
          response, pending, genResult, agentTools>>

---------------------------------------------------------------------------
(* Bounds: iterations of the console loop, and tool selections the agent   *)
(* makes over the whole run.                                               *)

MaxTurns == 2
MaxAgentSteps == 2

---------------------------------------------------------------------------
(* Strings.  Console input is a sequence of one-character strings so that  *)
(* str.lower() is computed character by character.                         *)

UpperOf == ("e" :> "E") @@ ("x" :> "X") @@ ("i" :> "I") @@ ("t" :> "T")
           @@ ("q" :> "Q") @@ ("u" :> "U") @@ ("s" :> "S") @@ ("h" :> "H")

LowerChar(c) ==
    IF \E l \in DOMAIN UpperOf : UpperOf[l] = c
    THEN CHOOSE l \in DOMAIN UpperOf : UpperOf[l] = c
    ELSE c

Lower(s) == [i \in 1..Len(s) |-> LowerChar(s[i])]

WordExit == <<"e", "x", "i", "t">>
WordQuit == <<"q", "u", "i", "t">>

\* every upper/lower casing of word w
Casings(w) ==
    {s \in [1..Len(w) -> {w[i] : i \in 1..Len(w)}
                          \cup {UpperOf[w[i]] : i \in 1..Len(w)}] :
        \A i \in 1..Len(w) : s[i] \in {w[i], UpperOf[w[i]]}}

OtherLines == { <<>>,
                <<"h", "i">>,
                <<"e", "x", "i", "t", " ">>,
                <<"Q", "U", "I", "T", "S">> }

InputLines == Casings(WordExit) \cup Casings(WordQuit) \cup OtherLines

ExitCommandMissesCase(line) == line \in {WordExit, WordQuit}

\* chat_loop: user_input.lower() in ['exit', 'quit']
IsExitCommand(line) == Lower(line) \in {WordExit, WordQuit}

---------------------------------------------------------------------------
(* External collaborators: values they can return and errors they raise.   *)

Errors == {"ServiceUnavailable", "CypherSyntaxError"}
ChainResults == {"rows"}
Queries == {"order 17", "supplier acme"}

\* what cypher_chain.invoke / llm.invoke does when called
Outcomes == [kind : {"ok"}, val : ChainResults]
            \cup [kind : {"raise"}, val : Errors]

NoOutcome == [kind |-> "none", val |-> ""]

\* dicts chat_agent.invoke can hand back: 'output' non-empty, empty, absent
Responses == [has_output : {TRUE}, output : {"Order 17 shipped.", ""}]
             \cup {[has_output |-> FALSE, output |-> ""]}

NoResponse == [has_output |-> FALSE, output |-> "<none>"]

\* print(response): the dict's repr
Repr(r) == IF ~r.has_output THEN "{}"
           ELSE IF r.output = "" THEN "{'output': ''}"
           ELSE "{'output': 'Order 17 shipped.'}"

\* str(KeyError('output'))
KeyErrorOutput == "'output'"

NoPending == [text |-> "", origin |-> "none"]

---------------------------------------------------------------------------
(* log_error and the messages built for it *)

CypherErrorPrefix == "Cypher error occurred: "
GenerateErrorPrefix == "Error generating response: "

\* f"{prefix}{str(e)}" handed to logging.error: one record per call
log_error(prefix, e) == <<[prefix |-> prefix, err |-> e]>>

\* cypher_chain.invoke({"query": query})
ChainInvoke(query) == [target |-> "cypher_chain", arg |-> [query |-> query]]

\* llm.invoke(query)
LlmInvoke(query) == [target |-> "llm", arg |-> query]

---------------------------------------------------------------------------
(* The tool callables.  Each takes the tool input and what the downstream  *)
(* call does, and yields: the downstream calls made, whether the callable  *)
(* returns or raises (flow) and with what (value), the log records it      *)
(* wrote and what it printed.                                              *)

cypher_qa(query, o) ==
    IF o.kind = "ok"
    THEN [calls |-> <<ChainInvoke(query)>>, flow |-> "return", value |-> o.val,
          logged |-> <<>>, printed |-> <<>>]
    ELSE [calls |-> <<ChainInvoke(query)>>, flow |-> "return",
          value |-> "There was an issue processing your request. Please try again or contact support.",
          logged |-> log_error(CypherErrorPrefix, o.val),
          printed |-> <<[kind |-> "exception", text |-> o.val]>>]

order_tracking_WrongFallback(query, o) ==
    IF o.kind = "ok"
    THEN [calls |-> <<ChainInvoke(query)>>, flow |-> "return", value |-> o.val,
          logged |-> <<>>, printed |-> <<>>]
    ELSE [calls |-> <<ChainInvoke(query)>>, flow |-> "return",
          value |-> "There was an issue processing your request. Please try again or contact support.",
          logged |-> log_error(CypherErrorPrefix, o.val),
          printed |-> <<[kind |-> "exception", text |-> o.val]>>]

order_tracking(query, o) ==
    IF o.kind = "ok"
    THEN [calls |-> <<ChainInvoke(query)>>, flow |-> "return", value |-> o.val,
          logged |-> <<>>, printed |-> <<>>]
    ELSE [calls |-> <<ChainInvoke(query)>>, flow |-> "return",
          value |-> "Unable to track the order at the moment. Please try again later or contact support.",
          logged |-> log_error(CypherErrorPrefix, o.val),
          printed |-> <<[kind |-> "exception", text |-> o.val]>>]

supplier_info_Reraises(query, o) ==
    IF o.kind = "ok"
    THEN [calls |-> <<ChainInvoke(query)>>, flow |-> "return", value |-> o.val,
          logged |-> <<>>, printed |-> <<>>]
    ELSE [calls |-> <<ChainInvoke(query)>>, flow |-> "raise", value |-> o.val,
          logged |-> log_error(CypherErrorPrefix, o.val),
          printed |-> <<[kind |-> "exception", text |-> o.val]>>]

supplier_info(query, o) ==
    IF o.kind = "ok"
    THEN [calls |-> <<ChainInvoke(query)>>, flow |-> "return", value |-> o.val,
          logged |-> <<>>, printed |-> <<>>]
    ELSE [calls |-> <<ChainInvoke(query)>>, flow |-> "return",
          value |-> "Unable to fetch supplier information. Please try again later or contact support.",
          logged |-> log_error(CypherErrorPrefix, o.val),
          printed |-> <<[kind |-> "exception", text |-> o.val]>>]

warehouse_inventory_Retries(query, o) ==
    IF o.kind = "ok"
    THEN [calls |-> <<ChainInvoke(query)>>, flow |-> "return", value |-> o.val,
          logged |-> <<>>, printed |-> <<>>]
    ELSE [calls |-> <<ChainInvoke(query), ChainInvoke(query)>>, flow |-> "return",
          value |-> "Unable to fetch warehouse inventory at the moment. Please try again later or contact support.",
          logged |-> log_error(CypherErrorPrefix, o.val),
          printed |-> <<[kind |-> "exception", text |-> o.val]>>]

warehouse_inventory(query, o) ==
    IF o.kind = "ok"
    THEN [calls |-> <<ChainInvoke(query)>>, flow |-> "return", value |-> o.val,
          logged |-> <<>>, printed |-> <<>>]
    ELSE [calls |-> <<ChainInvoke(query)>>, flow |-> "return",
          value |-> "Unable to fetch warehouse inventory at the moment. Please try again later or contact support.",
          logged |-> log_error(CypherErrorPrefix, o.val),
          printed |-> <<[kind |-> "exception", text |-> o.val]>>]

purchase_order_info(query, o) ==
    IF o.kind = "ok"
    THEN [calls |-> <<ChainInvoke(query)>>, flow |-> "return", value |-> o.val,
          logged |-> <<>>, printed |-> <<>>]
    ELSE [calls |-> <<ChainInvoke(query)>>, flow |-> "return",
          value |-> "Unable to retrieve purchase order information. Please try again later or contact support.",
          logged |-> log_error(CypherErrorPrefix, o.val),
          printed |-> <<[kind |-> "exception", text |-> o.val]>>]

customer_info(query, o) ==
    IF o.kind = "ok"
    THEN [calls |-> <<ChainInvoke(query)>>, flow |-> "return", value |-> o.val,
          logged |-> <<>>, printed |-> <<>>]
    ELSE [calls |-> <<ChainInvoke(query)>>, flow |-> "return",
          value |-> "Unable to retrieve customer information. Please try again later or contact support.",
          logged |-> log_error(CypherErrorPrefix, o.val),
          printed |-> <<[kind |-> "exception", text |-> o.val]>>]

\* func=llm.invoke: the bound method itself, no try/except around it
llm_invoke(query, o) ==
    [calls |-> <<LlmInvoke(query)>>,
     flow |-> IF o.kind = "ok" THEN "return" ELSE "raise",
     value |-> o.val, logged |-> <<>>, printed |-> <<>>]

GeneralChatThroughChain ==
    << [name |-> "Product Information",        func |-> "cypher_qa"],
       [name |-> "Order Tracking",             func |-> "order_tracking"],
       [name |-> "Supplier Information",       func |-> "supplier_info"],
       [name |-> "Warehouse Inventory",        func |-> "warehouse_inventory"],
       [name |-> "Purchase Order Information", func |-> "purchase_order_info"],
       [name |-> "Customer Information",       func |-> "customer_info"],
       [name |-> "General Chat",               func |-> "cypher_qa"] >>

\* tools = [Tool.from_function(name=..., description=..., func=...), ...]
tools ==
    << [name |-> "Product Information",        func |-> "cypher_qa"],
       [name |-> "Order Tracking",             func |-> "order_tracking"],
       [name |-> "Supplier Information",       func |-> "supplier_info"],
       [name |-> "Warehouse Inventory",        func |-> "warehouse_inventory"],
       [name |-> "Purchase Order Information", func |-> "purchase_order_info"],
       [name |-> "Customer Information",       func |-> "customer_info"],
       [name |-> "General Chat",               func |-> "llm.invoke"] >>

QueryFuncs == {"cypher_qa", "order_tracking", "supplier_info",
               "warehouse_inventory", "purchase_order_info", "customer_info"}

\* the user-facing string each capability's except clause returns
RegisteredFallback ==
    [f \in QueryFuncs |->
        CASE f = "cypher_qa" ->
               "There was an issue processing your request. Please try again or contact support."
          [] f = "order_tracking" ->
               "Unable to track the order at the moment. Please try again later or contact support."
          [] f = "supplier_info" ->
               "Unable to fetch supplier information. Please try again later or contact support."
          [] f = "warehouse_inventory" ->
               "Unable to fetch warehouse inventory at the moment. Please try again later or contact support."
          [] f = "purchase_order_info" ->
               "Unable to retrieve purchase order information. Please try again later or contact support."
          [] f = "customer_info" ->
               "Unable to retrieve customer information. Please try again later or contact support."]

\* Tool.run: call the registered callable
CallTool(func, query, o) ==
    CASE func = "cypher_qa"           -> cypher_qa(query, o)
      [] func = "order_tracking"      -> order_tracking(query, o)
      [] func = "supplier_info"       -> supplier_info(query, o)
      [] func = "warehouse_inventory" -> warehouse_inventory(query, o)
      [] func = "purchase_order_info" -> purchase_order_info(query, o)
      [] func = "customer_info"       -> customer_info(query, o)
      [] func = "llm.invoke"          -> llm_invoke(query, o)

---------------------------------------------------------------------------
(* Session identifiers *)

\* uuid.uuid4(): n identifiers produced so far; the next one is new
uuid4(n) == n + 1

get_session_id_Cached(n) == 1

\* get_session_id: str(uuid.uuid4())
get_session_id(n) == uuid4(n)

\* get_memory: Neo4jChatMessageHistory(session_id=session_id, graph=graph)
get_memory(session_id) == session_id

---------------------------------------------------------------------------
(* generate_response, after chat_agent.invoke returned or raised *)

NotFoundText == "I couldn't find the exact information in the database. Please try again or contact support."
GenericErrorText == "There was an issue processing your request. Please try again later or contact support."

\* print(response); if response['output']: ... else: ...; return final_answer
ExtractFinalAnswer(r) ==
    IF ~r.has_output
    THEN [flow |-> "raise", value |-> KeyErrorOutput,
          printed |-> <<[kind |-> "response", text |-> Repr(r)]>>]
    ELSE IF r.output # ""
    THEN [flow |-> "return", value |-> r.output,
          printed |-> <<[kind |-> "response", text |-> Repr(r)]>>]
    ELSE [flow |-> "return", value |-> NotFoundText,
          printed |-> <<[kind |-> "response", text |-> Repr(r)]>>]

HandleGenerateError_LeaksError(e) ==
    [flow |-> "return", value |-> e,
     logged |-> log_error(GenerateErrorPrefix, e)]

\* except Exception as e: log_error(...); return "There was an issue ..."
HandleGenerateError(e) ==
    [flow |-> "return", value |-> GenericErrorText,
     logged |-> log_error(GenerateErrorPrefix, e)]

---------------------------------------------------------------------------
(* Module initialisation: the module-level statements in source order.     *)
(* binds: names the statement binds; reads: names it evaluates when run    *)
(* (a def does not evaluate its body); connects: it opens a connection to  *)
(* an external service and may raise.                                      *)

ImportedNames == {"os", "uuid", "logging", "datetime", "Neo4jGraph",
                  "GraphCypherQAChain", "PromptTemplate", "AzureChatOpenAI",
                  "Tool", "AgentExecutor", "create_react_agent",
                  "RunnableWithMessageHistory", "Neo4jChatMessageHistory"}

Stmt(line, binds, reads, connects) ==
    [line |-> line, binds |-> binds, reads |-> reads, connects |-> connects]

\* names evaluated by llm = AzureChatOpenAI(...)
LlmArguments == {"AzureChatOpenAI", "openai_api_version", "openai_api_key",
                 "openai_api_base"}

ModuleStatements ==
    << Stmt(1,   ImportedNames, {}, FALSE),
       Stmt(15,  {}, {"logging"}, FALSE),
       Stmt(18,  {"get_session_id"}, {}, FALSE),
       Stmt(25,  {"get_memory"}, {}, FALSE),
       Stmt(29,  {"log_error"}, {}, FALSE),
       Stmt(33,  {"openai_api_key"}, {"os"}, FALSE),
       Stmt(34,  {"openai_api_version"}, {"os"}, FALSE),
       Stmt(37,  {"graph"}, {"Neo4jGraph"}, TRUE),
       Stmt(45,  {"llm"}, LlmArguments, FALSE),
       Stmt(55,  {"CYPHER_GENERATION_TEMPLATE"}, {}, FALSE),
       Stmt(88,  {"cypher_qa"}, {}, FALSE),
       Stmt(97,  {"order_tracking"}, {}, FALSE),
       Stmt(106, {"supplier_info"}, {}, FALSE),
       Stmt(115, {"warehouse_inventory"}, {}, FALSE),
       Stmt(124, {"purchase_order_info"}, {}, FALSE),
       Stmt(133, {"customer_info"}, {}, FALSE),
       Stmt(142, {"tools"}, {"Tool", "cypher_qa", "order_tracking",
                             "supplier_info", "warehouse_inventory",
                             "purchase_order_info", "customer_info", "llm"}, FALSE),
       Stmt(181, {"current_year"}, {"datetime"}, FALSE),
       Stmt(182, {"current_month_name"}, {"datetime"}, FALSE),
       Stmt(185, {"agent_prompt"}, {"PromptTemplate", "current_month_name",
                                    "current_year"}, FALSE),
       Stmt(230, {"cypher_chain"}, {"GraphCypherQAChain", "llm", "graph",
                                    "PromptTemplate",
                                    "CYPHER_GENERATION_TEMPLATE"}, FALSE),
       Stmt(240, {"agent"}, {"create_react_agent", "llm", "tools",
                             "agent_prompt"}, FALSE),
       Stmt(241, {"agent_executor"}, {"AgentExecutor", "agent", "tools"}, FALSE),
       Stmt(244, {"chat_agent"}, {"RunnableWithMessageHistory",
                                  "agent_executor", "get_memory"}, FALSE),
       Stmt(252, {"generate_response"}, {}, FALSE),
       Stmt(278, {"chat_loop"}, {}, FALSE),
       Stmt(289, {}, {"chat_loop"}, FALSE) >>

LlmStatement == CHOOSE i \in 1..Len(ModuleStatements) :
                    "llm" \in ModuleStatements[i].binds

AllModuleNames == UNION {ModuleStatements[i].binds : i \in 1..Len(ModuleStatements)}

\* os.environ as the process sees it; "None" stands for an unset variable
EnvVars == {"open_api_key", "openai_api_version", "openai_api_base"}
EnvValues == {"None", "", "value"}

\* os.getenv(name)
getenv(env, name) == env[name]

\* the value a statement binds to a name
BoundValue(name, env) ==
    IF name = "openai_api_key" THEN getenv(env, "open_api_key")
    ELSE IF name = "openai_api_version" THEN getenv(env, "openai_api_version")
    ELSE "object"

Bind(g, names, env) ==
    [n \in DOMAIN g \cup names |->
        IF n \in names THEN BoundValue(n, env) ELSE g[n]]

EmptyNamespace == [n \in {} |-> "object"]

LoopIdle ==
    /\ pc = "not_started" /\ turns = 0 /\ user_input = <<>>
    /\ console = <<>> /\ log = <<>> /\ uuidState = 0 /\ sessions = <<>>
    /\ memoryKey = 0 /\ stored = {} /\ genCalls = 0 /\ pipelineCalls = 0
    /\ agentSteps = 0 /\ curTool = 0 /\ toolInput = "" /\ outcome = NoOutcome
    /\ calls = <<>> /\ toolResult = "" /\ response = NoResponse
    /\ pending = NoPending /\ genResult = "" /\ agentTools = tools

InitStartup ==
    /\ mpc = 1
    /\ globals = EmptyNamespace
    /\ environ \in [EnvVars -> EnvValues]
    /\ crash = ""
    /\ LoopIdle

\* a statement whose names are all bound runs to completion
ExecStatement ==
    /\ crash = "" /\ mpc <= Len(ModuleStatements)
    /\ ModuleStatements[mpc].reads \subseteq DOMAIN globals
    /\ globals' = Bind(globals, ModuleStatements[mpc].binds, environ)
    /\ mpc' = mpc + 1
    /\ UNCHANGED <<environ, crash>>
    /\ UNCHANGED loopVars

\* a statement that evaluates an unbound name raises NameError
StatementNameError ==
    /\ crash = "" /\ mpc <= Len(ModuleStatements)
    /\ ~(ModuleStatements[mpc].reads \subseteq DOMAIN globals)
    /\ crash' = "NameError"
    /\ UNCHANGED <<mpc, globals, environ>>
    /\ UNCHANGED loopVars

\* Neo4jGraph(...) cannot reach the database
StatementConnectFails ==
    /\ crash = "" /\ mpc <= Len(ModuleStatements)
    /\ ModuleStatements[mpc].connects
    /\ ModuleStatements[mpc].reads \subseteq DOMAIN globals
    /\ crash' = "ServiceUnavailable"
    /\ UNCHANGED <<mpc, globals, environ>>
    /\ UNCHANGED loopVars

NextStartup ==
    \/ ExecStatement
    \/ StatementNameError
    \/ StatementConnectFails

SpecStartup == InitStartup /\ [][NextStartup]_vars

---------------------------------------------------------------------------
(* The console loop.  Spec starts at the call of chat_loop() with the      *)
(* module's objects (tools, cypher_chain, llm, chat_agent) in place.       *)

ModuleLoaded ==
    /\ mpc = Len(ModuleStatements) + 1
    /\ globals = [n \in AllModuleNames \cup {"openai_api_base"} |-> "object"]
    /\ environ = [v \in EnvVars |-> "value"]
    /\ crash = ""

Init ==
    /\ ModuleLoaded
    /\ LoopIdle

Greeting == [kind |-> "greeting",
             text |-> "Hello! I am your product chatbot. How can I assist you today?"]
Goodbye == [kind |-> "chatbot", text |-> "Goodbye!"]

\* print(f"Chatbot: {response}")
ChatbotLine(text) == [kind |-> "chatbot", text |-> text]

\* chat_loop entry: the print before the while loop
ChatLoopStart ==
    /\ pc = "not_started"
    /\ console' = Append(console, Greeting)
    /\ pc' = "input"
    /\ UNCHANGED <<turns, user_input, log, uuidState, sessions, memoryKey,
                   stored, genCalls, pipelineCalls, agentSteps, curTool,
                   toolInput, outcome, calls, toolResult, response, pending,
                   genResult, agentTools>>
    /\ UNCHANGED startupVars

\* user_input = input("You: "); the exit test; break or call generate_response
ReadInput(line) ==
    /\ pc = "input"
    /\ turns < MaxTurns
    /\ user_input' = line
    /\ genCalls' = 0
    /\ pipelineCalls' = 0
    /\ IF IsExitCommand(line)
       THEN /\ console' = Append(console, Goodbye)
            /\ pc' = "done"
       ELSE /\ console' = console
            /\ pc' = "generate"
    /\ UNCHANGED <<turns, log, uuidState, sessions, memoryKey, stored,
                   agentSteps, curTool, toolInput, outcome, calls, toolResult,
                   response, pending, genResult, agentTools>>
    /\ UNCHANGED startupVars

\* generate_response entry: chat_agent.invoke({"input": ...},
\* {"configurable": {"session_id": get_session_id()}}); the history wrapper
\* calls get_memory(session_id) before running the agent executor
GenerateResponseCall ==
    /\ pc = "generate"
    /\ LET sid == get_session_id(uuidState) IN
         /\ uuidState' = uuidState + 1
         /\ sessions' = Append(sessions, sid)
         /\ memoryKey' = get_memory(sid)
    /\ genCalls' = genCalls + 1
    /\ pipelineCalls' = pipelineCalls + 1
    /\ pc' = "agent"
    /\ UNCHANGED <<turns, user_input, console, log, stored, agentSteps, curTool,
                   toolInput, outcome, calls, toolResult, response, pending,
                   genResult, agentTools>>
    /\ UNCHANGED startupVars

\* the agent (LLM) answers "Action: <tool name> / Action Input: <q>"
AgentSelectTool(t, q) ==
    /\ pc = "agent"
    /\ agentSteps < MaxAgentSteps
    /\ agentSteps' = agentSteps + 1
    /\ curTool' = t
    /\ toolInput' = q
    /\ outcome' = NoOutcome
    /\ calls' = <<>>
    /\ toolResult' = ""
    /\ pc' = "tool"
    /\ UNCHANGED <<turns, user_input, console, log, uuidState, sessions,
                   memoryKey, stored, genCalls, pipelineCalls, response,
                   pending, genResult, agentTools>>
    /\ UNCHANGED startupVars

\* the executor runs the selected tool's callable; o is what the callable's
\* downstream call (cypher_chain.invoke or llm.invoke) does
ToolRun(o) ==
    /\ pc = "tool"
    /\ LET r == CallTool(agentTools[curTool].func, toolInput, o) IN
         /\ outcome' = o
         /\ calls' = r.calls
         /\ log' = log \o r.logged
         /\ console' = console \o r.printed
         /\ IF r.flow = "return"
            THEN /\ toolResult' = r.value
                 /\ pending' = pending
                 /\ pc' = "agent"
            ELSE /\ toolResult' = toolResult
                 /\ pending' = [text |-> r.value, origin |-> "tool"]
                 /\ pc' = "except"
    /\ UNCHANGED <<turns, user_input, uuidState, sessions, memoryKey, stored,
                   genCalls, pipelineCalls, agentSteps, curTool, toolInput,
                   response, genResult, agentTools>>
    /\ UNCHANGED startupVars

\* the agent reaches a final answer: the executor returns its dict and the
\* history wrapper stores the turn under the session id
AgentFinish(r) ==
    /\ pc = "agent"
    /\ response' = r
    /\ stored' = stored \cup {memoryKey}
    /\ pc' = "extract"
    /\ UNCHANGED <<turns, user_input, console, log, uuidState, sessions,
                   memoryKey, genCalls, pipelineCalls, agentSteps, curTool,
                   toolInput, outcome, calls, toolResult, pending, genResult,
                   agentTools>>
    /\ UNCHANGED startupVars

\* the LLM call fails or its text cannot be parsed: the executor raises
AgentRaise(e) ==
    /\ pc = "agent"
    /\ pending' = [text |-> e, origin |-> "agent"]
    /\ pc' = "except"
    /\ UNCHANGED <<turns, user_input, console, log, uuidState, sessions,
                   memoryKey, stored, genCalls, pipelineCalls, agentSteps,
                   curTool, toolInput, outcome, calls, toolResult, response,
                   genResult, agentTools>>
    /\ UNCHANGED startupVars

\* generate_response after chat_agent.invoke returned
GenerateResponseExtract ==
    /\ pc = "extract"
    /\ LET x == ExtractFinalAnswer(response) IN
         /\ console' = console \o x.printed
         /\ IF x.flow = "return"
            THEN /\ genResult' = x.value
                 /\ pending' = pending
                 /\ pc' = "print"
            ELSE /\ genResult' = genResult
                 /\ pending' = [text |-> x.value, origin |-> "extract"]
                 /\ pc' = "except"
    /\ UNCHANGED <<turns, user_input, log, uuidState, sessions, memoryKey,
                   stored, genCalls, pipelineCalls, agentSteps, curTool,
                   toolInput, outcome, calls, toolResult, response,
                   agentTools>>
    /\ UNCHANGED startupVars

\* generate_response's except clause
GenerateResponseExcept ==
    /\ pc = "except"
    /\ LET h == HandleGenerateError(pending.text) IN
         /\ log' = log \o h.logged
         /\ genResult' = h.value
    /\ pc' = "print"
    /\ UNCHANGED <<turns, user_input, console, uuidState, sessions, memoryKey,
                   stored, genCalls, pipelineCalls, agentSteps, curTool,
                   toolInput, outcome, calls, toolResult, response, pending,
                   agentTools>>
    /\ UNCHANGED startupVars

\* back in chat_loop: print(f"Chatbot: {response}") and loop; the locals of
\* the finished generate_response call are gone
PrintResponse ==
    /\ pc = "print"
    /\ console' = Append(console, ChatbotLine(genResult))
    /\ turns' = turns + 1
    /\ pc' = "input"
    /\ curTool' = 0 /\ toolInput' = "" /\ outcome' = NoOutcome
    /\ calls' = <<>> /\ toolResult' = "" /\ response' = NoResponse
    /\ pending' = NoPending
    /\ UNCHANGED <<user_input, log, uuidState, sessions, memoryKey, stored,
                   genCalls, pipelineCalls, agentSteps, genResult, agentTools>>
    /\ UNCHANGED startupVars

Next ==
    \/ ChatLoopStart
    \/ \E line \in InputLines : ReadInput(line)
    \/ GenerateResponseCall
    \/ \E t \in 1..Len(agentTools), q \in Queries : AgentSelectTool(t, q)
    \/ \E o \in Outcomes : ToolRun(o)
    \/ \E r \in Responses : AgentFinish(r)
    \/ \E e \in Errors : AgentRaise(e)
    \/ GenerateResponseExtract
    \/ GenerateResponseExcept
    \/ PrintResponse

Spec == Init /\ [][Next]_vars

---------------------------------------------------------------------------
(* Properties *)

Last(q) == q[Len(q)]

\* "exit" or "quit" under some letter casing
IsExitWord(line) == line \in Casings(WordExit) \cup Casings(WordQuit)

InGenerate == pc \in {"agent", "tool", "extract", "except", "print"}

CurFunc == agentTools[curTool].func
CurName == agentTools[curTool].name
ToolRan == curTool # 0 /\ outcome # NoOutcome

\* C1: a line that is "exit" or "quit" under any casing ends the loop after
\* the goodbye line, without a generate_response call for it and with no
\* further step; every other line gets exactly one generate_response call
\* whose result is printed before the next line is read.
C1_ExitEndsLoopElseOneResponse ==
    /\ (pc \notin {"not_started", "input"}) =>
          (IsExitWord(user_input) <=> pc = "done")
    /\ pc = "done" =>
          /\ genCalls = 0
          /\ Last(console) = [kind |-> "chatbot", text |-> "Goodbye!"]
          /\ ~ENABLED Next
    /\ InGenerate => genCalls = 1
    /\ (pc = "input" /\ turns > 0) =>
          /\ ~IsExitWord(user_input)
          /\ genCalls = 1
          /\ Last(console) = [kind |-> "chatbot", text |-> genResult]

C1_Witness ==
    /\ pc = "done"
    /\ user_input = <<"E", "x", "I", "t">>
    /\ turns = 1
    /\ Len(console) >= 3

\* C2 (as stated): when the pipeline returned a result, generate_response
\* returns the not-found literal if `output` is empty or absent, and the
\* field's value unchanged if it is non-empty.
C2_EmptyOrAbsentGivesNotFound ==
    (pc = "print" /\ response \in Responses) =>
        genResult = IF response.has_output /\ response.output # ""
                    THEN response.output
                    ELSE NotFoundText

\* C3: when the chain invocation raises, a query capability returns its
\* registered fallback, appends exactly one log record holding the error
\* text and does not re-raise; when it does not raise, the capability
\* returns the chain's result and the log is left alone.
C3_QueryToolErrorBoundary ==
    [][(pc = "tool" /\ CurFunc \in QueryFuncs) =>
          /\ pc' = "agent"
          /\ pending' = pending
          /\ IF outcome'.kind = "raise"
             THEN /\ toolResult' = RegisteredFallback[CurFunc]
                  /\ log' = Append(log, [prefix |-> "Cypher error occurred: ",
                                         err |-> outcome'.val])
             ELSE /\ toolResult' = outcome'.val
                  /\ log' = log]_vars

C3_Witness ==
    /\ pc = "agent"
    /\ ToolRan
    /\ CurFunc = "order_tracking"
    /\ outcome = [kind |-> "raise", val |-> "CypherSyntaxError"]
    /\ toolResult = "Unable to track the order at the moment. Please try again later or contact support."
    /\ Len(log) = 1

C5_ConsoleShowsOnlySentences ==
    \A i \in 1..Len(console) : console[i].kind \in {"greeting", "chatbot"}

\* C6: when the pipeline call or the extraction raises, generate_response
\* returns the generic text, appends exactly one log record holding the
\* error text and does not re-raise; whatever happens it hands a string
\* back to chat_loop.
C6_TopLevelErrorBoundary ==
    /\ [][pc = "except" =>
            /\ pc' = "print"
            /\ genResult' = "There was an issue processing your request. Please try again later or contact support."
            /\ log' = Append(log, [prefix |-> "Error generating response: ",
                                   err |-> pending.text])]_vars
    /\ [](pc = "print" =>
            genResult \in {NotFoundText, GenericErrorText}
                          \cup ({r.output : r \in Responses} \ {""}))

C6_Witness ==
    /\ pc = "print"
    /\ pending = [text |-> "'output'", origin |-> "extract"]
    /\ genResult = GenericErrorText
    /\ Last(log) = [prefix |-> "Error generating response: ", err |-> "'output'"]

\* C7: every generate_response call uses a session id produced for that
\* call; the ids used in a run are pairwise distinct, and the history
\* handle of a turn is never keyed by an id an earlier turn was stored
\* under.
C7_FreshSessionPerTurn ==
    /\ \A i, j \in 1..Len(sessions) : i # j => sessions[i] # sessions[j]
    /\ Len(sessions) = turns + (IF InGenerate THEN 1 ELSE 0)
    /\ pc \in {"agent", "tool"} =>
          /\ memoryKey = Last(sessions)
          /\ memoryKey \notin stored
    /\ stored \subseteq {sessions[i] : i \in 1..Len(sessions)}

C7_Witness ==
    /\ pc = "agent"
    /\ Len(sessions) = 2
    /\ stored = {sessions[1]}

\* C8: seven named tools; the six query capabilities hand their input
\* unchanged to cypher_chain and differ only in fallback text; General Chat
\* hands its input to the language model and never touches cypher_chain;
\* the list is never modified.
C8_ToolForwarding ==
    /\ agentTools = tools
    /\ Len(agentTools) = 7
    /\ Cardinality({agentTools[i].name : i \in 1..Len(agentTools)}) = 7
    /\ {agentTools[i].func : i \in 1..6} = QueryFuncs
    /\ agentTools[7].name = "General Chat"
    /\ (ToolRan /\ CurFunc \in QueryFuncs) =>
          \A g \in QueryFuncs :
             LET a == CallTool(CurFunc, toolInput, outcome)
                 b == CallTool(g, toolInput, outcome)
             IN /\ a.calls = b.calls /\ a.flow = b.flow
                /\ a.logged = b.logged /\ a.printed = b.printed
                /\ outcome.kind = "ok" => a.value = b.value
    /\ ToolRan =>
          /\ Len(calls) >= 1
          /\ \A k \in 1..Len(calls) :
                IF CurName = "General Chat"
                THEN calls[k].target = "llm" /\ calls[k].arg = toolInput
                ELSE /\ calls[k].target = "cypher_chain"
                     /\ calls[k].arg = [query |-> toolInput]

C8_Witness ==
    /\ pc = "agent"
    /\ ToolRan
    /\ CurName = "General Chat"
    /\ toolInput = "supplier acme"
    /\ calls = <<[target |-> "llm", arg |-> "supplier acme"]>>

\* C9: a query capability invokes the chain once per call and after a
\* failure returns its fallback at once; generate_response invokes the
\* pipeline once per call.
C9_SingleAttempt ==
    /\ (ToolRan /\ CurFunc \in QueryFuncs) =>
          /\ Len(calls) = 1
          /\ outcome.kind = "raise" =>
                (pc = "agent" => toolResult = RegisteredFallback[CurFunc])
    /\ InGenerate => pipelineCalls = 1
    /\ (pc = "input" /\ turns > 0) => pipelineCalls = 1

C9_Witness ==
    /\ pc = "agent"
    /\ ToolRan
    /\ CurFunc = "warehouse_inventory"
    /\ outcome.kind = "raise"
    /\ Len(calls) = 1

\* C10 (as stated): when the language-model client is constructed, every
\* name its arguments are read from is bound, and module initialisation
\* does not stop with a NameError.
C10_LlmArgumentsBound ==
    /\ (crash = "" /\ mpc = LlmStatement) =>
          ModuleStatements[mpc].reads \subseteq DOMAIN globals
    /\ crash # "NameError"

=============================================================================
